---- MODULE Spec2Model ----
(***************************************************************************)
(* Model of sistema_recomendacao (src/superfunc.py): user-based            *)
(* collaborative filtering with cosine similarity.  One call of the        *)
(* function is one behaviour: the arguments are fixed by Init and the      *)
(* stages of the function body are the actions.                            *)
(*                                                                         *)
(* Numbers.  Ratings are non-negative integers held as Python floats.      *)
(* Every similarity, sum and score is an IEEE 754 binary64 value, computed *)
(* as Python and numpy compute it: each operation returns the double       *)
(* nearest to the exact result, ties to even.  A double is the record      *)
(* [m, e] of value m * 2^e, with m = 0 or 2^52 <= m < 2^53; m is a         *)
(* sequence of limbs of LimbBits bits, lowest first, zero the empty        *)
(* sequence.  No value of the model is negative, infinite or subnormal.    *)
(*                                                                         *)
(* Iteration order.  avaliacoes and similaridades are dicts and iterate in *)
(* insertion order (the order of NomesUsuarios).  itens_nao_avaliados is a *)
(* set of str: its iteration order depends on the process's string hash    *)
(* seed, so it is a nondeterministic choice among all orders.              *)
(***************************************************************************)
EXTENDS Integers, Sequences, FiniteSets

\* ---------------------------------------------------------------- bounds
MaxRating == 1
MaxEntries == 4
MaxTopN == 2
MaxDenso == 3

NomesUsuarios == <<"Alice", "Bob", "Charlie", "Diana">>
Usuarios == {"Alice", "Bob", "Charlie"}
Itens == {"Filme1", "Filme2", "Filme3"}
Notas == 0..MaxRating

\* ------------------------------------------------- unbounded naturals
Base == 32768
LimbBits == 15
MantissaBits == 53

RECURSIVE SomaConj(_, _)
SomaConj(f, S) ==
    IF S = {} THEN 0
    ELSE LET x == CHOOSE y \in S : TRUE IN f[x] + SomaConj(f, S \ {x})

Min(a, b) == IF a <= b THEN a ELSE b

Pow2Tab == <<1, 2, 4, 8, 16, 32, 64, 128, 256, 512, 1024, 2048, 4096, 8192, 16384, 32768>>
Pow2(k) == Pow2Tab[k + 1]

RECURSIVE BitLenInt(_)
BitLenInt(n) == IF n = 0 THEN 0 ELSE 1 + BitLenInt(n \div 2)


RECURSIVE BNorm(_)
BNorm(s) ==
    IF s = <<>> THEN s
    ELSE IF s[Len(s)] = 0 THEN BNorm(SubSeq(s, 1, Len(s) - 1)) ELSE s

RECURSIVE BDeInt(_)
BDeInt(n) == IF n = 0 THEN <<>> ELSE <<n % Base>> \o BDeInt(n \div Base)

Limb(a, i) == IF i <= Len(a) THEN a[i] ELSE 0

RECURSIVE BAddC(_, _, _, _)
BAddC(a, b, i, c) ==
    IF i > Len(a) /\ i > Len(b)
    THEN (IF c = 0 THEN <<>> ELSE <<c>>)
    ELSE LET t == Limb(a, i) + Limb(b, i) + c
         IN  <<t % Base>> \o BAddC(a, b, i + 1, t \div Base)

BAdd(a, b) == BAddC(a, b, 1, 0)

RECURSIVE BSubC(_, _, _, _)
BSubC(a, b, i, c) ==
    IF i > Len(a) THEN <<>>
    ELSE LET t == Limb(a, i) - Limb(b, i) - c
         IN  IF t < 0 THEN <<t + Base>> \o BSubC(a, b, i + 1, 1)
             ELSE <<t>> \o BSubC(a, b, i + 1, 0)

\* a - b for a >= b
BSub(a, b) == BNorm(BSubC(a, b, 1, 0))

RECURSIVE BCmpAt(_, _, _)
BCmpAt(a, b, i) ==
    IF i = 0 THEN 0
    ELSE IF a[i] < b[i] THEN 0 - 1
    ELSE IF a[i] > b[i] THEN 1
    ELSE BCmpAt(a, b, i - 1)

\* -1, 0, 1
BCmp(a, b) ==
    IF Len(a) < Len(b) THEN 0 - 1
    ELSE IF Len(a) > Len(b) THEN 1
    ELSE BCmpAt(a, b, Len(a))

RECURSIVE BMulLimbC(_, _, _, _)
BMulLimbC(a, k, i, c) ==
    IF i > Len(a) THEN (IF c = 0 THEN <<>> ELSE <<c>>)
    ELSE LET t == a[i] * k + c
         IN  <<t % Base>> \o BMulLimbC(a, k, i + 1, t \div Base)

\* a * k for 0 <= k <= Base
BMulLimb(a, k) == IF k = 0 THEN <<>> ELSE BMulLimbC(a, k, 1, 0)

Zeros(n) == [i \in 1..n |-> 0]

RECURSIVE BMulAt(_, _, _)
BMulAt(a, b, i) ==
    IF i > Len(b) THEN <<>>
    ELSE LET p == BMulLimb(a, b[i])
         IN  BAdd(IF p = <<>> THEN p ELSE Zeros(i - 1) \o p, BMulAt(a, b, i + 1))

BMul(a, b) == IF a = <<>> \/ b = <<>> THEN <<>> ELSE BMulAt(a, b, 1)

\* a * 2^n
BShl(a, n) ==
    IF a = <<>> THEN a
    ELSE Zeros(n \div LimbBits) \o BMulLimb(a, Pow2(n % LimbBits))

\* floor(a / 2^n)
BShr(a, n) ==
    LET k == n \div LimbBits
        r == n % LimbBits
    IN  IF k >= Len(a) THEN <<>>
        ELSE BNorm([i \in 1..(Len(a) - k) |->
                      (a[i + k] \div Pow2(r))
                      + (Limb(a, i + k + 1) % Pow2(r)) * Pow2(LimbBits - r)])

BBitLen(a) == IF a = <<>> THEN 0 ELSE LimbBits * (Len(a) - 1) + BitLenInt(a[Len(a)])

BBit(a, i) == (Limb(a, i \div LimbBits + 1) \div Pow2(i % LimbBits)) % 2

BIsOdd(a) == a # <<>> /\ a[1] % 2 = 1

\* the low n bits of a are all zero
BLowZero(a, n) == BShl(BShr(a, n), n) = a

\* the largest d with d * b <= r, from the estimate d
RECURSIVE BFix(_, _, _)
BFix(r, b, d) == IF BCmp(BMulLimb(b, d), r) > 0 THEN BFix(r, b, d - 1) ELSE d

\* floor(r / b) for r < b * Base, the top limb of b being >= Base / 2
BDigit(r, b) ==
    IF BCmp(r, b) < 0 THEN 0
    ELSE BFix(r, b, Min((Limb(r, Len(b) + 1) * Base + Limb(r, Len(b))) \div b[Len(b)],
                        Base - 1))

\* schoolbook division, the limbs of a from limb i down: q the quotient and
\* r the remainder of the limbs above i
RECURSIVE BDivLoop(_, _, _, _, _)

\* r1 the remainder with limb i brought down, d its quotient by b
BDivStep(a, b, i, q, r1, d) ==
    BDivLoop(a, b, i - 1, <<d>> \o q, BSub(r1, BMulLimb(b, d)))

BDivNext(a, b, i, q, r1) == BDivStep(a, b, i, q, r1, BDigit(r1, b))

BDivLoop(a, b, i, q, r) ==
    IF i = 0 THEN <<BNorm(q), r>>
    ELSE BDivNext(a, b, i, q, BNorm(<<a[i]>> \o r))

\* an and bn are a and b shifted left by sh, the top limb of bn >= Base / 2
BDivOut(qr, sh) == <<qr[1], BShr(qr[2], sh)>>

BDivNorm(an, bn, sh) == BDivOut(BDivLoop(an, bn, Len(an), <<>>, <<>>), sh)

BDivSh(a, b, sh) == BDivNorm(BShl(a, sh), BShl(b, sh), sh)

\* <<floor(a / b), a mod b>> for b # 0
BDivMod(a, b) == BDivSh(a, b, LimbBits - BitLenInt(b[Len(b)]))

\* Newton's iteration from x >= sqrt(a), y the next iterate
RECURSIVE BNewton(_, _)

BNewtonStep(a, x, y) == IF BCmp(y, x) >= 0 THEN x ELSE BNewton(a, y)

BNewton(a, x) == BNewtonStep(a, x, BShr(BAdd(x, BDivMod(a, x)[1]), 1))

\* floor(sqrt(a))
BISqrt(a) == IF a = <<>> THEN a ELSE BNewton(a, BShl(<<1>>, (BBitLen(a) + 1) \div 2))

\* ------------------------------------------------------------ binary64
\* the doubles of the model are >= 0
FZero == [m |-> <<>>, e |-> 0]

\* rounding n * 2^e: k the number of low bits dropped, q the bits kept, up
\* whether q is rounded up, q1 the result, which may carry into one more bit
FCarry(q1, e) ==
    IF BBitLen(q1) > MantissaBits THEN [m |-> BShr(q1, 1), e |-> e + 1]
    ELSE [m |-> q1, e |-> e]

FRoundUp(q, e, up) == FCarry(IF up THEN BAdd(q, <<1>>) ELSE q, e)

FRoundQ(n, e, sticky, k, q) ==
    FRoundUp(q, e, BBit(n, k - 1) = 1 /\ (sticky \/ ~BLowZero(n, k - 1) \/ BIsOdd(q)))

FRoundAt(n, e, sticky, k) ==
    IF k <= 0 THEN [m |-> BShl(n, 0 - k), e |-> e + k]
    ELSE FRoundQ(n, e + k, sticky, k, BShr(n, k))

\* the double nearest to n * 2^e (ties to even); sticky: n * 2^e is a strict
\* lower bound, the value lying below (n + 1) * 2^e
FRound(n, e, sticky) ==
    IF n = <<>> THEN FZero ELSE FRoundAt(n, e, sticky, BBitLen(n) - MantissaBits)

FDeInt(n) == FRound(BDeInt(n), 0, FALSE)

FMul(a, b) == FRound(BMul(a.m, b.m), a.e + b.e, FALSE)

FAdd(a, b) ==
    IF a.m = <<>> THEN b
    ELSE IF b.m = <<>> THEN a
    ELSE LET e == Min(a.e, b.e)
         IN  FRound(BAdd(BShl(a.m, a.e - e), BShl(b.m, b.e - e)), e, FALSE)

\* a / b for b # 0
FQuociente(qr, e) == FRound(qr[1], e, qr[2] # <<>>)

FDiv(a, b) ==
    IF a.m = <<>> THEN FZero
    ELSE FQuociente(BDivMod(BShl(a.m, MantissaBits + 3), b.m),
                    a.e - b.e - (MantissaBits + 3))

\* sqrt of the integer n: a is n * 4^(MantissaBits + 2), s is floor(sqrt(a))
RaizDe(a, s) == FRound(s, 0 - (MantissaBits + 2), BMul(s, s) # a)

RaizA(a) == RaizDe(a, BISqrt(a))

Raiz(n) == RaizA(BShl(BDeInt(n), 2 * (MantissaBits + 2)))

\* the square roots of the squared norms of up to 4 ratings of at most 5,
\* computed once
RaizTab == [n \in 0..(4 * 5 * 5) |-> Raiz(n)]

FSqrtInt(n) == IF n \in DOMAIN RaizTab THEN RaizTab[n] ELSE Raiz(n)

\* a < b
FLess(a, b) ==
    IF b.m = <<>> THEN FALSE
    ELSE IF a.m = <<>> THEN TRUE
    ELSE a.e < b.e \/ (a.e = b.e /\ BCmp(a.m, b.m) < 0)

\* ---------------------------------------------------- similaridade_cosseno
\* lines 45-59.  The ratings being integers, the dot product and the two
\* sums of squares are integers below 2^53: numpy computes them exactly, in
\* whatever order it adds.
\* line 59: np.dot(v1, v2) / (norma1 * norma2), from the dot product and the
\* squared norms of the two vectors
Cosseno(dot, n1sq, n2sq) ==
    FDiv(FDeInt(dot), FMul(FSqrtInt(n1sq), FSqrtInt(n2sq)))

\* the quotients of the vectors of the bounded matrices, computed once
LimTab == Cardinality(Itens) * MaxRating * MaxRating

CossenoTab ==
    [d \in 1..LimTab |-> [a \in 1..LimTab |-> [b \in 1..LimTab |-> Cosseno(d, a, b)]]]

similaridade_cosseno(user1, user2) ==
    LET itens_comuns == DOMAIN user1 \cap DOMAIN user2
        n1sq == SomaConj([i \in itens_comuns |-> user1[i] * user1[i]], itens_comuns)
        n2sq == SomaConj([i \in itens_comuns |-> user2[i] * user2[i]], itens_comuns)
        dot  == SomaConj([i \in itens_comuns |-> user1[i] * user2[i]], itens_comuns)
    IN  IF itens_comuns = {} THEN FZero
        ELSE IF n1sq = 0 \/ n2sq = 0 THEN FZero
        ELSE IF dot >= 1 /\ dot <= LimTab /\ n1sq <= LimTab /\ n2sq <= LimTab
             THEN CossenoTab[dot][n1sq][n2sq]
             ELSE Cosseno(dot, n1sq, n2sq)

\* ----------------------------------------------- stages of the function body
\* the users of S in dict insertion order
EmOrdem(S) == SelectSeq(NomesUsuarios, LAMBDA u : u \in S)

\* Similaridades with the test of line 67 written sim >= 0
SimilaridadesNaoNegativas(av, alvo) ==
    LET outros == DOMAIN av \ {alvo}
    IN  [u \in {v \in outros : ~FLess(similaridade_cosseno(av[alvo], av[v]), FZero)} |->
            similaridade_cosseno(av[alvo], av[u])]

\* lines 63-68: the similarity table, strictly positive entries only
Positivas(sim) == [u \in {v \in DOMAIN sim : FLess(FZero, sim[v])} |-> sim[u]]

Similaridades(av, alvo) ==
    Positivas([u \in DOMAIN av \ {alvo} |-> similaridade_cosseno(av[alvo], av[u])])

\* ItensNaoAvaliados without the subtraction of line 78
TodosItens(av, alvo) == UNION {DOMAIN av[u] : u \in DOMAIN av}

\* lines 74-78: every item of the matrix minus the target's own items
ItensNaoAvaliados(av, alvo) ==
    LET itens_avaliados == DOMAIN av[alvo]
        todos_itens == UNION {DOMAIN av[u] : u \in DOMAIN av}
    IN  todos_itens \ itens_avaliados

\* lines 86-91: the inner loop over similaridades.items(), from position k,
\* with acc = <<soma_pontuacao, soma_similaridade>>
RECURSIVE Acumular(_, _, _, _, _, _)
Acumular(item, sims, av, us, k, acc) ==
    IF k > Len(us) THEN acc
    ELSE LET usuario == us[k]
             similaridade == sims[usuario]
         IN  IF item \in DOMAIN av[usuario]
             THEN Acumular(item, sims, av, us, k + 1,
                           <<FAdd(acc[1], FMul(similaridade, FDeInt(av[usuario][item]))),
                             FAdd(acc[2], similaridade)>>)
             ELSE Acumular(item, sims, av, us, k + 1, acc)

\* the sum of the similarities of us, in order, from position k
RECURSIVE SomaSimilaridades(_, _, _)
SomaSimilaridades(sims, us, k) ==
    IF k > Len(us) THEN FZero
    ELSE FAdd(sims[us[k]], SomaSimilaridades(sims, us, k + 1))

\* Pontuacao with line 91 moved out of the test of line 89: every similar
\* user adds to the denominator
PontuacaoSobreTodos(item, sims, av) ==
    LET somas == Acumular(item, sims, av, EmOrdem(DOMAIN sims), 1, <<FZero, FZero>>)
        todos == SomaSimilaridades(sims, EmOrdem(DOMAIN sims), 1)
    IN  IF FLess(FZero, somas[2]) THEN FDiv(somas[1], todos) ELSE FZero

\* Pontuacao without the weights of lines 90-91: a plain mean
PontuacaoSemPeso(item, sims, av) ==
    LET uns == [u \in DOMAIN sims |-> FDeInt(1)]
        somas == Acumular(item, uns, av, EmOrdem(DOMAIN sims), 1, <<FZero, FZero>>)
    IN  IF FLess(FZero, somas[2]) THEN FDiv(somas[1], somas[2]) ELSE FZero

\* lines 86-95: the predicted score of one item
Quociente(somas) == IF FLess(FZero, somas[2]) THEN FDiv(somas[1], somas[2]) ELSE FZero

Pontuacao(item, sims, av) ==
    Quociente(Acumular(item, sims, av, EmOrdem(DOMAIN sims), 1, <<FZero, FZero>>))

\* lines 84-95: pontuacoes, a dict whose insertion order is the order in which
\* the set itens_nao_avaliados was iterated
Pontuacoes(ordem, sims, av) ==
    [k \in 1..Len(ordem) |->
        [item |-> ordem[k], pontuacao |-> Pontuacao(ordem[k], sims, av)]]

\* a > b
Maior(a, b) == FLess(b, a)

\* line 98: sorted(..., key=score, reverse=True) is stable: equal scores keep
\* their order of insertion
Inserir(ord, e) ==
    LET menores == {k \in 1..Len(ord) : Maior(e.pontuacao, ord[k].pontuacao)}
        pos == IF menores = {} THEN Len(ord) + 1
               ELSE CHOOSE k \in menores : \A j \in menores : k <= j
    IN  SubSeq(ord, 1, pos - 1) \o <<e>> \o SubSeq(ord, pos, Len(ord))

\* Ordenar without reverse=True: a stable ascending sort
InserirCrescente(ord, e) ==
    LET maiores == {k \in 1..Len(ord) : Maior(ord[k].pontuacao, e.pontuacao)}
        pos == IF maiores = {} THEN Len(ord) + 1
               ELSE CHOOSE k \in maiores : \A j \in maiores : k <= j
    IN  SubSeq(ord, 1, pos - 1) \o <<e>> \o SubSeq(ord, pos, Len(ord))

RECURSIVE OrdenarCrescente(_)
OrdenarCrescente(s) ==
    IF s = <<>> THEN <<>>
    ELSE InserirCrescente(OrdenarCrescente(SubSeq(s, 1, Len(s) - 1)), s[Len(s)])

RECURSIVE Ordenar(_)

Ordenar(s) ==
    IF s = <<>> THEN <<>>
    ELSE Inserir(Ordenar(SubSeq(s, 1, Len(s) - 1)), s[Len(s)])

\* Truncar with the slice of line 99 one short
TruncarMenosUm(recomendacoes, n) ==
    SubSeq(recomendacoes, 1, Min(n, Len(recomendacoes)) - 1)

\* line 99
Truncar(recomendacoes, n) == SubSeq(recomendacoes, 1, Min(n, Len(recomendacoes)))

Recomendar(ordem, sims, av, n) == Truncar(Ordenar(Pontuacoes(ordem, sims, av)), n)

Permutacoes(S) ==
    {s \in [1..Cardinality(S) -> S] : \A i, j \in 1..Cardinality(S) : i # j => s[i] # s[j]}

\* ------------------------------------------------------------------ errors
\* what the caller gets: a list, or an exception of class tipo whose message
\* is msg (a wrapped message is the prefix followed by the inner message)
Nenhum == [tipo |-> "nenhum", msg |-> <<>>, lista |-> <<>>]
Erro(tipo, msg) == [tipo |-> tipo, msg |-> <<msg>>, lista |-> <<>>]
Lista(l) == [tipo |-> "lista", msg |-> <<>>, lista |-> l]

\* lines 24-31, in the order of the code
ErroValidacao(av, alvo, n) ==
    IF av.tipo # "dict" \/ DOMAIN av.valor = {}
        THEN Erro("TypeError", "avaliacoes deve ser um dicionario nao vazio")
    ELSE IF alvo.tipo # "str"
        THEN Erro("TypeError", "usuario_alvo deve ser uma string")
    ELSE IF n.tipo # "int" \/ n.valor < 1
        THEN Erro("ValueError", "n_recomendacoes deve ser um inteiro positivo")
    ELSE IF alvo.valor \notin DOMAIN av.valor
        THEN Erro("ValueError", "usuario nao encontrado")
    ELSE Nenhum

\* lines 45, 66: .keys() of a value that is no dict raises AttributeError as
\* soon as the loop of line 64 reaches a user other than the target
ErroAtributo(av, alvo) ==
    LET outros == DOMAIN av.valor \ {alvo}
    IN  outros # {} /\ (alvo \in av.naoDict \/ av.naoDict \cap outros # {})

\* lines 101-102: whatever the body raises is raised again as a ValueError
Embrulhar(msg) ==
    [tipo |-> "ValueError", msg |-> <<"Erro ao gerar recomendacoes", msg>>, lista |-> <<>>]

\* ------------------------------------------------------------------ inputs
\* the matrix whose rated cells are S, with the ratings f, and whose users in
\* vazios have an empty mapping
MatrizDe(S, f, vazios) ==
    [u \in {c[1] : c \in S} \cup vazios |->
        [i \in {c[2] : c \in {d \in S : d[1] = u}} |-> f[<<u, i>>]]]

MatrizesAte(k) ==
    UNION {{MatrizDe(S, f, vazios) :
                f \in [S -> Notas], vazios \in SUBSET (Usuarios \ {c[1] : c \in S})} :
           S \in {T \in SUBSET (Usuarios \X Itens) : Cardinality(T) <= k}}

\* lines 108-113: the example of the source
ExemploA ==
    [u \in {"Alice", "Bob", "Charlie", "Diana"} |->
        CASE u = "Alice"   -> [i \in {"Filme1", "Filme2", "Filme3"} |->
                                  CASE i = "Filme1" -> 5 [] i = "Filme2" -> 3 [] OTHER -> 4]
          [] u = "Bob"     -> [i \in {"Filme1", "Filme2", "Filme4"} |->
                                  CASE i = "Filme1" -> 4 [] i = "Filme2" -> 2 [] OTHER -> 5]
          [] u = "Charlie" -> [i \in {"Filme2", "Filme3", "Filme4"} |->
                                  CASE i = "Filme2" -> 4 [] i = "Filme3" -> 3 [] OTHER -> 4]
          [] OTHER         -> [i \in {"Filme1", "Filme3", "Filme4"} |->
                                  CASE i = "Filme1" -> 3 [] i = "Filme3" -> 5 [] OTHER -> 2]]

\* a dict of dicts
BemFormadas(k) ==
    {[tipo |-> "dict", valor |-> m, naoDict |-> {}] : m \in MatrizesAte(k)}

\* a value that is no dict, and dicts some of whose values (the keys naoDict)
\* are no dict
MalFormadas ==
    {[tipo |-> "outro", valor |-> <<>>, naoDict |-> {}]}
    \cup {[tipo |-> "dict",
           valor |-> [u \in DOMAIN m \cup nd |-> IF u \in nd THEN <<>> ELSE m[u]],
           naoDict |-> nd] : m \in MatrizesAte(1), nd \in SUBSET Usuarios \ {{}}}

Alvos == {[tipo |-> "str", valor |-> "Alice"], [tipo |-> "outro", valor |-> ""]}

Quantidades == {[tipo |-> "outro", valor |-> 0]} \cup {[tipo |-> "int", valor |-> k] : k \in 0..MaxTopN}

Dict(m) == [tipo |-> "dict", valor |-> m, naoDict |-> {}]

\* every combination of ill-typed or out-of-range arguments on the smallest
\* matrices
EntradasDeValidacao ==
    [avaliacoes : BemFormadas(1) \cup MalFormadas,
     usuario_alvo : Alvos,
     n_recomendacoes : Quantidades]

\* ------------------------------------------------------------------- state
VARIABLES avaliacoes, usuario_alvo, n_recomendacoes,
          pc, similaridades, itens_nao_avaliados, pontuacoes, resultado

vars == <<avaliacoes, usuario_alvo, n_recomendacoes,
          pc, similaridades, itens_nao_avaliados, pontuacoes, resultado>>

entrada == <<avaliacoes, usuario_alvo, n_recomendacoes>>

\* the arguments of the call: every well-typed call on the bounded matrices,
\* on the example of the source and on the matrices of two users who share
\* two items, and the calls of EntradasDeValidacao
Argumentos ==
    \/ \E S \in {T \in SUBSET (Usuarios \X Itens) : Cardinality(T) <= MaxEntries},
          k \in 1..MaxTopN :
          \E f \in [S -> Notas], vazios \in SUBSET (Usuarios \ {c[1] : c \in S}) :
             /\ avaliacoes = Dict(MatrizDe(S, f, vazios))
             /\ usuario_alvo = [tipo |-> "str", valor |-> "Alice"]
             /\ n_recomendacoes = [tipo |-> "int", valor |-> k]
    \/ \E a \in {"Alice", "Bob", "Charlie", "Diana"}, k \in 1..MaxTopN :
          /\ avaliacoes = Dict(ExemploA)
          /\ usuario_alvo = [tipo |-> "str", valor |-> a]
          /\ n_recomendacoes = [tipo |-> "int", valor |-> k]
    \/ \E f \in [({"Alice"} \X {"Filme1", "Filme2"})
                   \cup ({"Bob"} \X {"Filme1", "Filme2", "Filme3"}) -> 1..MaxDenso] :
          /\ avaliacoes = Dict(MatrizDe(DOMAIN f, f, {}))
          /\ usuario_alvo = [tipo |-> "str", valor |-> "Alice"]
          /\ n_recomendacoes = [tipo |-> "int", valor |-> 1]
    \/ \E e \in EntradasDeValidacao :
          /\ avaliacoes = e.avaliacoes
          /\ usuario_alvo = e.usuario_alvo
          /\ n_recomendacoes = e.n_recomendacoes

Init ==
    /\ Argumentos
    /\ pc = "validar"
    /\ similaridades = <<>>
    /\ itens_nao_avaliados = {}
    /\ pontuacoes = <<>>
    /\ resultado = Nenhum

Levantar(erro) ==
    /\ resultado' = erro
    /\ pc' = "fim"

\* lines 24-31
Validar ==
    /\ pc = "validar"
    /\ LET erro == ErroValidacao(avaliacoes, usuario_alvo, n_recomendacoes)
       IN  IF erro # Nenhum THEN Levantar(erro)
           ELSE pc' = "similaridades" /\ UNCHANGED resultado
    /\ UNCHANGED <<entrada, similaridades, itens_nao_avaliados, pontuacoes>>

\* lines 62-71
CalcularSimilaridades ==
    /\ pc = "similaridades"
    /\ IF ErroAtributo(avaliacoes, usuario_alvo.valor)
       THEN Levantar(Embrulhar("AttributeError")) /\ UNCHANGED similaridades
       ELSE /\ similaridades' = Similaridades(avaliacoes.valor, usuario_alvo.valor)
            /\ IF DOMAIN similaridades' = {}
               THEN Levantar(Embrulhar("Nenhum usuario similar encontrado"))
               ELSE pc' = "itens" /\ UNCHANGED resultado
    /\ UNCHANGED <<entrada, itens_nao_avaliados, pontuacoes>>

\* lines 73-81
IdentificarItens ==
    /\ pc = "itens"
    /\ LET itens == ItensNaoAvaliados(avaliacoes.valor, usuario_alvo.valor)
       IN  /\ itens_nao_avaliados' = itens
           /\ IF itens = {}
              THEN Levantar(Embrulhar("Nenhum item disponivel"))
              ELSE pc' = "pontuar" /\ UNCHANGED resultado
    /\ UNCHANGED <<entrada, similaridades, pontuacoes>>

\* lines 83-95: the set is iterated in some order
Pontuar ==
    /\ pc = "pontuar"
    /\ \E ordem \in Permutacoes(itens_nao_avaliados) :
          pontuacoes' = Pontuacoes(ordem, similaridades, avaliacoes.valor)
    /\ pc' = "ordenar"
    /\ UNCHANGED <<entrada, similaridades, itens_nao_avaliados, resultado>>

\* lines 97-99
OrdenarERetornar ==
    /\ pc = "ordenar"
    /\ resultado' = Lista(Truncar(Ordenar(pontuacoes), n_recomendacoes.valor))
    /\ pc' = "fim"
    /\ UNCHANGED <<entrada, similaridades, itens_nao_avaliados, pontuacoes>>

Next ==
    \/ Validar
    \/ CalcularSimilaridades
    \/ IdentificarItens
    \/ Pontuar
    \/ OrdenarERetornar

Spec == Init /\ [][Next]_vars

\* ============================================================ properties
av == avaliacoes.valor
alvo == usuario_alvo.valor
lista == resultado.lista

\* the arguments pass the checks of lines 24-31 and every value is a dict
EntradaValida ==
    /\ avaliacoes.tipo = "dict" /\ avaliacoes.naoDict = {}
    /\ usuario_alvo.tipo = "str" /\ alvo \in DOMAIN av
    /\ n_recomendacoes.tipo = "int" /\ n_recomendacoes.valor >= 1

Sucesso == pc = "fim" /\ resultado.tipo = "lista"

Outros == DOMAIN av \ {alvo}

\* the items of the whole matrix that the target has not rated
Candidatos == {i \in UNION {DOMAIN av[u] : u \in DOMAIN av} : i \notin DOMAIN av[alvo]}

ItensDaLista == {lista[k].item : k \in 1..Len(lista)}

\* the similar users who rated item x
Avaliadores(x) == {u \in DOMAIN similaridades : x \in DOMAIN av[u]}

\* a <= b
MenorOuIgual(a, b) == ~FLess(b, a)

\* ---------------------------------------------------------------- C3
\* C3: on success the list has min(topN, number of candidates) entries, the
\* candidates being the items rated by any user minus the target's items.
C3_Comprimento ==
    Sucesso => Len(lista) = Min(n_recomendacoes.valor, Cardinality(Candidatos))

\* a success with topN larger than the number of candidates
C3_Witness ==
    /\ Sucesso
    /\ n_recomendacoes.valor > Cardinality(Candidatos)
    /\ Len(lista) = Cardinality(Candidatos)

\* ---------------------------------------------------------------- C5
\* C5: on success no returned item is a key of the target's own ratings.
C5_NaoAvaliadoPeloAlvo ==
    Sucesso => \A k \in 1..Len(lista) : lista[k].item \notin DOMAIN av[alvo]

\* a success that returns two items to a target who rated some item
C5_Witness ==
    Sucesso /\ Len(lista) = 2 /\ DOMAIN av[alvo] # {}

\* ---------------------------------------------------------------- C6
\* C6: on success adjacent entries have non-increasing scores, and no
\* candidate left out of the list has a score strictly above a returned one.
C6_OrdemDecrescente ==
    Sucesso =>
        /\ \A k \in 1..(Len(lista) - 1) :
              MenorOuIgual(lista[k + 1].pontuacao, lista[k].pontuacao)
        /\ \A j \in 1..Len(pontuacoes), k \in 1..Len(lista) :
              pontuacoes[j].item \notin ItensDaLista
                  => MenorOuIgual(pontuacoes[j].pontuacao, lista[k].pontuacao)

\* a success where the set was iterated lowest score first and the list was
\* cut: the sort had to move the returned item ahead of the dropped one
C6_Witness ==
    /\ Sucesso
    /\ Len(pontuacoes) = 2 /\ Len(lista) = 1
    /\ ~MenorOuIgual(pontuacoes[2].pontuacao, pontuacoes[1].pontuacao)

\* ---------------------------------------------------------------- C7
\* C7: a non-target user who shares no item with the target is not in the
\* similarity table; when no other user shares an item with the target the
\* call fails with the no-similar-users error and returns no list.
SemItemComum(u) == DOMAIN av[u] \cap DOMAIN av[alvo] = {}

C7_SemSimilares ==
    (EntradaValida /\ pc = "fim") =>
        /\ \A u \in Outros : SemItemComum(u) => u \notin DOMAIN similaridades
        /\ (\A u \in Outros : SemItemComum(u)) =>
              /\ resultado.tipo = "ValueError"
              /\ resultado.msg = <<"Erro ao gerar recomendacoes",
                                   "Nenhum usuario similar encontrado">>
              /\ lista = <<>>

\* the call has ended, other users exist and rated items the target has not,
\* and none of them shares an item with the target
C7_Witness ==
    /\ EntradaValida /\ pc = "fim"
    /\ Outros # {} /\ Candidatos # {} /\ DOMAIN av[alvo] # {}
    /\ \A u \in Outros : SemItemComum(u)
    /\ resultado.tipo = "ValueError"

\* ---------------------------------------------------------------- C9
\* the double after (d = 1) or before (d = -1) the positive double a
FVizinho(a, d) ==
    IF d = 1
    THEN LET m1 == BAdd(a.m, <<1>>)
         IN  IF BBitLen(m1) > MantissaBits THEN [m |-> BShr(m1, 1), e |-> a.e + 1]
             ELSE [m |-> m1, e |-> a.e]
    ELSE LET m1 == BSub(a.m, <<1>>)
         IN  IF BBitLen(m1) < MantissaBits
             THEN [m |-> BAdd(BShl(m1, 1), <<1>>), e |-> a.e - 1]
             ELSE [m |-> m1, e |-> a.e]

\* a moved n doubles up (d = 1) or down (d = -1); zero stays zero
RECURSIVE FPassos(_, _, _)
FPassos(a, d, n) ==
    IF n = 0 \/ a = FZero THEN a ELSE FPassos(FVizinho(a, d), d, n - 1)

\* the score of x is at least the lowest and at most the highest rating that
\* the similar users gave x, each widened by n doubles
EntreNotas(x, p, n) ==
    /\ \E u \in Avaliadores(x) : ~FLess(p, FPassos(FDeInt(av[u][x]), 0 - 1, n))
    /\ \E u \in Avaliadores(x) : ~FLess(FPassos(FDeInt(av[u][x]), 1, n), p)

\* the target and the users of similarity <= 0 are not in the table, and an
\* item no user of the table rated scores 0
ForaDaTabela ==
    /\ alvo \notin DOMAIN similaridades
    /\ \A u \in Outros :
          ~FLess(FZero, similaridade_cosseno(av[alvo], av[u]))
              => u \notin DOMAIN similaridades
    /\ \A u \in DOMAIN similaridades : FLess(FZero, similaridades[u])
    /\ \A k \in 1..Len(pontuacoes) :
          Avaliadores(pontuacoes[k].item) = {} => pontuacoes[k].pontuacao = FZero

Pontuado == EntradaValida /\ pc \in {"ordenar", "fim"} /\ resultado.tipo # "ValueError"

C4_Original ==
    Sucesso => \A k \in 1..Len(lista) : Avaliadores(lista[k].item) # {}

\* C4 amended: every returned item was rated by at least one user other than
\* the target; an item that no user of the similarity table rated can be
\* returned, and its score is then 0.
C4_AvaliadoPorOutro ==
    Sucesso =>
        \A k \in 1..Len(lista) :
            /\ \E u \in Outros : lista[k].item \in DOMAIN av[u]
            /\ Avaliadores(lista[k].item) = {} => lista[k].pontuacao = FZero

\* a success that returns an item rated only by users outside the table
C4_Witness ==
    /\ Sucesso
    /\ \E k \in 1..Len(lista) :
          /\ Avaliadores(lista[k].item) = {}
          /\ \E u \in Outros \ DOMAIN similaridades : lista[k].item \in DOMAIN av[u]

\* ---------------------------------------------------------------- C8
EhCenarioA ==
    /\ avaliacoes = Dict(ExemploA)
    /\ usuario_alvo = [tipo |-> "str", valor |-> "Alice"]
    /\ n_recomendacoes = [tipo |-> "int", valor |-> 2]

\* C8 as stated: on the example, for Alice and topN = 2, the call returns a
\* 2-element list drawn from {Filme4}, ordered by descending score.
C8_Original ==
    (EhCenarioA /\ pc = "fim") =>
        /\ resultado.tipo = "lista"
        /\ Len(lista) = 2
        /\ ItensDaLista \subseteq {"Filme4"}
        /\ \A k \in 1..(Len(lista) - 1) :
              MenorOuIgual(lista[k + 1].pontuacao, lista[k].pontuacao)

\* C8 amended: on the example, for Alice and topN = 2, the call returns the
\* 1-element list [(Filme4, s)], s the weighted mean of 5, 4 and 2 (about
\* 3.70, between 3.69 and 3.70).
C8_CenarioA ==
    (EhCenarioA /\ pc = "fim") =>
        /\ resultado.tipo = "lista"
        /\ Len(lista) = 1
        /\ lista[1].item = "Filme4"
        /\ FLess(FDiv(FDeInt(369), FDeInt(100)), lista[1].pontuacao)
        /\ FLess(lista[1].pontuacao, FDiv(FDeInt(370), FDeInt(100)))

C8_Witness == EhCenarioA /\ Sucesso /\ DOMAIN similaridades = {"Bob", "Charlie", "Diana"}

\* --------------------------------------------------------------- C10
\* C10: the returned list is the same whatever order the candidate set is
\* iterated in, ties and truncation included.
C10_Determinismo ==
    Sucesso =>
        \A ordem \in Permutacoes(itens_nao_avaliados) :
            Recomendar(ordem, similaridades, av, n_recomendacoes.valor) = lista

\* ---------------------------------------------------------------- C2
\* the argument types of section 7's first row: ratings no dict of dicts,
\* target no string, topN no integer
TipoInvalido(a, t, n) ==
    a.tipo # "dict" \/ a.naoDict # {} \/ t.tipo # "str" \/ n.tipo # "int"

\* the argument values of section 7's second row, the types being right
ValorInvalido(a, t, n) ==
    DOMAIN a.valor = {} \/ n.valor < 1 \/ t.valor \notin DOMAIN a.valor

\* C2: an ill-typed argument ends in a TypeError and an empty matrix, a
\* topN < 1 or an absent target in a ValueError, before any similarity is
\* computed.
C2_Validacao ==
    pc = "fim" =>
        /\ TipoInvalido(avaliacoes, usuario_alvo, n_recomendacoes) =>
              resultado.tipo = "TypeError" /\ similaridades = <<>>
        /\ (/\ ~TipoInvalido(avaliacoes, usuario_alvo, n_recomendacoes)
            /\ ValorInvalido(avaliacoes, usuario_alvo, n_recomendacoes)) =>
              resultado.tipo = "ValueError" /\ similaridades = <<>>

\* ---------------------------------------------------------------- C1
\* the causes of failure that apply to a call, by section 6's names
Causas(a, t, n) ==
    LET valida == ~TipoInvalido(a, t, n) /\ ~ValorInvalido(a, t, n)
        sims == Similaridades(a.valor, t.valor)
    IN  (IF TipoInvalido(a, t, n) THEN {"invalid-argument-type"} ELSE {})
        \cup (IF a.tipo = "dict" /\ DOMAIN a.valor = {} THEN {"empty-input"} ELSE {})
        \cup (IF a.tipo = "dict" /\ DOMAIN a.valor # {} /\ t.tipo = "str"
                 /\ t.valor \notin DOMAIN a.valor
              THEN {"unknown-user"} ELSE {})
        \cup (IF valida /\ DOMAIN sims = {} THEN {"no-similar-users"} ELSE {})
        \cup (IF valida /\ DOMAIN sims # {} /\ ItensNaoAvaliados(a.valor, t.valor) = {}
              THEN {"no-candidate-items"} ELSE {})

\* the class of the exception a call raises ("lista" when it returns)
TipoDoResultado(a, t, n) ==
    IF ErroValidacao(a, t, n) # Nenhum THEN ErroValidacao(a, t, n).tipo
    ELSE IF ErroAtributo(a, t.valor) THEN "ValueError"
    ELSE IF DOMAIN Similaridades(a.valor, t.valor) = {} THEN "ValueError"
    ELSE IF ItensNaoAvaliados(a.valor, t.valor) = {} THEN "ValueError"
    ELSE "lista"

\* the calls the ended call is compared with
Referencias ==
    [avaliacoes : BemFormadas(2) \cup MalFormadas,
     usuario_alvo : Alvos,
     n_recomendacoes : Quantidades]

\* C1: a call that failed for one of the five causes raised an error of a
\* class that no call failing for another of the five causes raises.
C1_Distinguiveis ==
    (pc = "fim" /\ Cardinality(Causas(avaliacoes, usuario_alvo, n_recomendacoes)) = 1) =>
        \A r \in Referencias :
            LET c == Causas(r.avaliacoes, r.usuario_alvo, r.n_recomendacoes)
            IN  (/\ Cardinality(c) = 1
                 /\ c # Causas(avaliacoes, usuario_alvo, n_recomendacoes)) =>
                    TipoDoResultado(r.avaliacoes, r.usuario_alvo, r.n_recomendacoes)
                        # resultado.tipo

\* TipoDoResultado is the class the actions end with
TipoDoResultadoConfere ==
    pc = "fim" =>
        resultado.tipo = TipoDoResultado(avaliacoes, usuario_alvo, n_recomendacoes)

====
